---- MODULE Spec2Model ----
(***************************************************************************)
(* Model of src/src/Web/dashboard_server.py: the CryptoClaude dashboard    *)
(* server.  An HTTPServer (single-threaded) accepts connections in arrival *)
(* order and runs CryptoClaudeHandler.do_GET / do_POST on each request     *)
(* to completion before it accepts the next one.                           *)
(*                                                                         *)
(* Encodings.  A request path is the sequence of its '/'-separated         *)
(* segments: "/api/health" is <<"api","health">>, "/api/" is <<"api","">>, *)
(* "/api" is <<"api">>, "/" is <<"">>.  Decimal literals are scaled to     *)
(* integers (127543.21 -> 12754321 hundredths).  A call outcome is a       *)
(* record [exc, resp, snap]: exc = "none" when the call returns resp, the  *)
(* exception's message when it raises; snap is the snapshot afterwards.    *)
(***************************************************************************)
EXTENDS Integers, Sequences, FiniteSets, TLC

VARIABLES pending, snapshot, now, last, obs

vars == <<pending, snapshot, now, last, obs>>

\* ------------------------------------------------------------------ bounds
MaxRequests == 3
MaxPending == 1

\* ------------------------------------------------------- request alphabet
Methods == {"GET", "POST"}

P_health  == <<"api", "health">>
P_status  == <<"api", "status">>
P_logs    == <<"api", "logs">>
P_start   == <<"api", "trading", "start">>
P_stop    == <<"api", "trading", "stop">>
P_pause   == <<"api", "trading", "pause">>
P_toggle  == <<"api", "claude", "toggle">>
P_refresh == <<"api", "predictions", "refresh">>

Recognized ==
  {P_health, P_status, P_logs, P_start, P_stop, P_pause, P_toggle, P_refresh}

UnknownApiPaths ==
  {<<"api", "">>, <<"api", "health", "">>, <<"api", "trading">>}

NonApiPaths == {<<"">>, <<"api">>}

Targets ==
  [path : Recognized \cup UnknownApiPaths \cup NonApiPaths, query : {""}]
    \cup {[path |-> P_toggle, query |-> "x=1"]}

Requests == [method : Methods, target : Targets]

\* ------------------------------------------------------------ host signals
PgrepOutcomes ==
  { [exc |-> "FileNotFoundError", stdout |-> <<>>],
    [exc |-> "none", stdout |-> <<>>],
    [exc |-> "none", stdout |-> <<"\n">>],
    [exc |-> "none", stdout |-> <<"4", "2", "\n">>] }

PingOutcomes ==
  { [exc |-> "none", returncode |-> 0],
    [exc |-> "none", returncode |-> 1],
    [exc |-> "TimeoutExpired", returncode |-> 0] }

UptimeOutcomes ==
  { [exc |-> "none", centis |-> 12399],
    [exc |-> "FileNotFoundError", centis |-> 0] }

LoadOutcomes ==
  { [exc |-> "none", centis |-> <<12, 8, 5>>],
    [exc |-> "FileNotFoundError", centis |-> <<>>] }

StaticOutcomes == {200, 404}

QuietEnv ==
  [ pgrep   |-> [exc |-> "none", stdout |-> <<>>],
    ping    |-> [exc |-> "none", returncode |-> 0],
    uptime  |-> [exc |-> "none", centis |-> 12399],
    loadavg |-> [exc |-> "none", centis |-> <<12, 8, 5>>],
    static  |-> 200,
    fault   |-> "none" ]

\* ----------------------------------------------------------- call outcomes
Return(resp, snap) == [exc |-> "none", resp |-> resp, snap |-> snap]

Raise(msg, snap) == [exc |-> msg, resp |-> [status |-> "raised"], snap |-> snap]

\* ------------------------------------------------------------------- probes
IsSpace(c) == c \in {" ", "\n", "\t"}

RECURSIVE lstrip(_)
lstrip(s) ==
  IF s = <<>> THEN s
  ELSE IF IsSpace(Head(s)) THEN lstrip(Tail(s)) ELSE s

RECURSIVE rstrip(_)
rstrip(s) ==
  IF s = <<>> THEN s
  ELSE IF IsSpace(s[Len(s)]) THEN rstrip(SubSeq(s, 1, Len(s) - 1)) ELSE s

strip(s) == rstrip(lstrip(s))

\* Faulty variant: the probe without its bare except (lines 238-239).
check_aws_connection_nocatch(env) ==
  IF env.ping.exc # "none" THEN [exc |-> env.ping.exc, val |-> FALSE]
  ELSE [exc |-> "none", val |-> (env.ping.returncode = 0)]

\* Lines 231-239: any failure of the ping, a timeout included, gives False.
check_aws_connection(env) ==
  IF env.ping.exc # "none" THEN [exc |-> "none", val |-> FALSE]
  ELSE [exc |-> "none", val |-> (env.ping.returncode = 0)]

\* Lines 241-248: int(float(first field)), 0 when the file cannot be read.
get_system_uptime(env) ==
  IF env.uptime.exc # "none" THEN [exc |-> "none", val |-> 0]
  ELSE [exc |-> "none", val |-> env.uptime.centis \div 100]

get_system_load(env) ==
  IF env.loadavg.exc # "none" THEN [exc |-> "none", val |-> <<0, 0, 0>>]
  ELSE [exc |-> "none", val |-> SubSeq(env.loadavg.centis, 1, 3)]

HealthError(msg, t, snap) ==
  Return([status |-> "error", error |-> msg, timestamp |-> t], snap)

\* Lines 88-112: everything runs inside one try; except Exception returns the
\* error report.  is_running is len(stdout.strip()) > 0.
check_system_health(snap, t, env) ==
  IF env.pgrep.exc # "none" THEN HealthError(env.pgrep.exc, t, snap)
  ELSE
    LET is_running == Len(strip(env.pgrep.stdout)) > 0
        aws == check_aws_connection(env)
        up == get_system_uptime(env)
    IN IF aws.exc # "none" THEN HealthError(aws.exc, t, snap)
       ELSE IF up.exc # "none" THEN HealthError(up.exc, t, snap)
       ELSE Return(
              [ status |-> IF is_running THEN "healthy" ELSE "stopped",
                cryptoclaude_running |-> is_running,
                aws_connected |-> aws.val,
                timestamp |-> t,
                uptime |-> up.val ], snap)

\* ----------------------------------------------------------------- handlers
\* Faulty variant: different seed literals.
SeedSnapshot_live ==
  [ portfolio_value |-> 12754321,
    portfolio_change |-> 342183,
    portfolio_change_percent |-> 276,
    active_positions |-> 0,
    trading_mode |-> "live",
    ai_confidence |-> 842,
    claude_features_enabled |-> TRUE,
    positions |-> <<>> ]

\* Lines 116-124: the figures get_system_status reports.  The source keeps
\* them as literals and no handler assigns to them; the model carries them in
\* the variable snapshot so that each handler's effect on them is explicit.
SeedSnapshot ==
  [ portfolio_value |-> 12754321,
    portfolio_change |-> 342183,
    portfolio_change_percent |-> 276,
    active_positions |-> 8,
    trading_mode |-> "paper",
    ai_confidence |-> 842,
    claude_features_enabled |-> TRUE,
    positions |-> <<"BTC", "ETH", "ADA", "SOL", "MATIC", "LINK", "DOT", "AVAX">> ]

\* Lines 114-128: no try of its own, so an exception in the body (env.fault)
\* reaches the router.  The body has no status key.
get_system_status(snap, t, env) ==
  IF env.fault # "none" THEN Raise(env.fault, snap)
  ELSE
    LET load == get_system_load(env)
    IN IF load.exc # "none" THEN Raise(load.exc, snap)
       ELSE Return(
              [ portfolio_value |-> snap.portfolio_value,
                portfolio_change |-> snap.portfolio_change,
                portfolio_change_percent |-> snap.portfolio_change_percent,
                active_positions |-> snap.active_positions,
                trading_mode |-> snap.trading_mode,
                ai_confidence |-> snap.ai_confidence,
                claude_features_enabled |-> snap.claude_features_enabled,
                positions |-> snap.positions,
                last_prediction_update |-> t,
                system_load |-> load.val,
                timestamp |-> t ], snap)

\* Faulty variant: the log list without the timestamp key.
get_recent_logs_no_timestamp(snap, t, env) ==
  IF env.fault # "none" THEN Raise(env.fault, snap)
  ELSE Return([logs |-> <<>>], snap)

get_recent_logs(snap, t, env) ==
  IF env.fault # "none" THEN Raise(env.fault, snap)
  ELSE Return(
         [ logs |-> << [timestamp |-> t, level |-> "INFO",
                        message |-> "CryptoClaude system running normally"],
                       [timestamp |-> t, level |-> "SUCCESS",
                        message |-> "Claude AI features operational"],
                       [timestamp |-> t, level |-> "INFO",
                        message |-> "API connections: 6/6 active"] >>,
           timestamp |-> t ], snap)

start_trading(snap, t, env) ==
  Return([status |-> "success", message |-> "Trading system started",
          timestamp |-> t], snap)

\* Faulty variant: the start message pasted into stop.
stop_trading_copied(snap, t, env) ==
  Return([status |-> "success", message |-> "Trading system started",
          timestamp |-> t], snap)

stop_trading(snap, t, env) ==
  Return([status |-> "success", message |-> "Trading system stopped",
          timestamp |-> t], snap)

\* Faulty variant: pause that clears the position count.
pause_trading_writes(snap, t, env) ==
  Return([status |-> "success", message |-> "Trading system paused",
          timestamp |-> t], [snap EXCEPT !.active_positions = 0])

pause_trading(snap, t, env) ==
  Return([status |-> "success", message |-> "Trading system paused",
          timestamp |-> t], snap)

\* Faulty variant: a toggle that only ever switches the features off.
toggle_claude_features_off(snap, t, env) ==
  Return([status |-> "success", message |-> "Claude features toggled",
          claude_enabled |-> FALSE, timestamp |-> t],
         [snap EXCEPT !.claude_features_enabled = FALSE])

\* Lines 198-212: returns claude_enabled True and assigns nothing.
toggle_claude_features(snap, t, env) ==
  Return([status |-> "success", message |-> "Claude features toggled",
          claude_enabled |-> TRUE, timestamp |-> t], snap)

refresh_predictions(snap, t, env) ==
  Return([status |-> "success", message |-> "Predictions refreshed",
          new_confidence |-> 871, symbols_updated |-> 12,
          timestamp |-> t], snap)

\* ------------------------------------------------------------------- router
urlparse(target) == [path |-> target.path, query |-> target.query]

startswith_api(path) == Len(path) >= 2 /\ path[1] = "api"

json_dumps(d) == [json |-> "object", members |-> d]

NoBody == [json |-> "none", members |-> [status |-> "none"]]

CorsHeaders ==
  [ ContentType |-> "application/json",
    AllowOrigin |-> "*",
    AllowMethods |-> "GET, POST, OPTIONS",
    AllowHeaders |-> "Content-Type" ]

NoHeaders ==
  [ ContentType |-> "", AllowOrigin |-> "", AllowMethods |-> "",
    AllowHeaders |-> "" ]

\* Faulty variant: the not-found body without its error message.
EndpointNotFound_bare(snap) == Return([status |-> "error"], snap)

EndpointNotFound(snap) ==
  Return([error |-> "API endpoint not found", status |-> "error"], snap)

Route(path, snap, t, env) ==
  CASE path = P_health  -> check_system_health(snap, t, env)
    [] path = P_status  -> get_system_status(snap, t, env)
    [] path = P_logs    -> get_recent_logs(snap, t, env)
    [] path = P_start   -> start_trading(snap, t, env)
    [] path = P_stop    -> stop_trading(snap, t, env)
    [] path = P_pause   -> pause_trading(snap, t, env)
    [] path = P_toggle  -> toggle_claude_features(snap, t, env)
    [] path = P_refresh -> refresh_predictions(snap, t, env)
    [] OTHER -> EndpointNotFound(snap)

\* Faulty variant: the router without its except clause.
RouterCatch_reraise(out) ==
  IF out.exc # "none"
  THEN [caught |-> FALSE, propagated |-> TRUE,
        data |-> [error |-> out.exc, status |-> "error"]]
  ELSE [caught |-> FALSE, propagated |-> FALSE, data |-> out.resp]

\* Lines 54-83: except Exception turns a raising handler into an error body.
RouterCatch(out) ==
  IF out.exc # "none"
  THEN [caught |-> TRUE, propagated |-> FALSE,
        data |-> [error |-> out.exc, status |-> "error"]]
  ELSE [caught |-> FALSE, propagated |-> FALSE, data |-> out.resp]

\* Lines 41-86: the 200 header block is sent before dispatch; the body is
\* written once, after the try.
handle_api_request(parsed_path, method, snap, t, env) ==
  LET out == Route(parsed_path.path, snap, t, env)
      r == RouterCatch(out)
  IN [ code |-> 200,
       headers |-> CorsHeaders,
       handlerExc |-> out.exc,
       propagated |-> r.propagated,
       writes |-> IF r.propagated THEN 0 ELSE 1,
       body |-> IF r.propagated THEN NoBody ELSE json_dumps(r.data),
       snap |-> out.snap ]

StaticResponse(code, snap) ==
  [ code |-> code, headers |-> NoHeaders, handlerExc |-> "none",
    propagated |-> FALSE, writes |-> 1, body |-> NoBody, snap |-> snap ]

do_GET_response(target, snap, t, env) ==
  LET parsed_path == urlparse(target)
  IN IF startswith_api(parsed_path.path)
     THEN handle_api_request(parsed_path, "GET", snap, t, env)
     ELSE StaticResponse(env.static, snap)

do_POST_response(target, snap, t, env) ==
  LET parsed_path == urlparse(target)
  IN IF startswith_api(parsed_path.path)
     THEN handle_api_request(parsed_path, "POST", snap, t, env)
     ELSE StaticResponse(404, snap)

\* ------------------------------------------------------------- observation
TradingPaths == {P_start, P_stop, P_pause}

CommandPaths == TradingPaths \cup {P_toggle, P_refresh}

NoExchange ==
  [ method |-> "none", target |-> [path |-> <<>>, query |-> ""],
    env |-> QuietEnv, code |-> 0, headers |-> NoHeaders,
    handlerExc |-> "none", propagated |-> FALSE, writes |-> 0,
    body |-> NoBody ]

Exchange(req, env, r) ==
  [ method |-> req.method, target |-> req.target, env |-> env,
    code |-> r.code, headers |-> r.headers, handlerExc |-> r.handlerExc,
    propagated |-> r.propagated, writes |-> r.writes, body |-> r.body ]

PathOf(ex) == urlparse(ex.target).path

IsApi(ex) == startswith_api(PathOf(ex))

\* What getStatus reports for claude_features_enabled on a given snapshot.
ReportedFlag(snap) ==
  get_system_status(snap, 0, QuietEnv).resp.claude_features_enabled

NoObs ==
  [ nToggles |-> 0, anyCommand |-> FALSE, prevCommand |-> <<>>,
    flag1 |-> ReportedFlag(SeedSnapshot),
    flag2 |-> ReportedFlag(SeedSnapshot) ]

\* obs records, for the request just served: how many toggles have been
\* served, whether any command has, the command served immediately before
\* (<<>> if the previous request was no command), and the flag getStatus
\* would have reported before this request (flag1) and the one before (flag2).
Observe(o, ex, snap) ==
  [ nToggles |-> IF PathOf(ex) = P_toggle THEN o.nToggles + 1 ELSE o.nToggles,
    anyCommand |-> o.anyCommand \/ PathOf(ex) \in CommandPaths,
    prevCommand |-> IF PathOf(last) \in CommandPaths THEN PathOf(last) ELSE <<>>,
    flag1 |-> ReportedFlag(snap),
    flag2 |-> o.flag1 ]

\* ------------------------------------------------------------------ actions
EnvFor(path) ==
  [ pgrep   : IF path = P_health THEN PgrepOutcomes ELSE {QuietEnv.pgrep},
    ping    : IF path = P_health THEN PingOutcomes ELSE {QuietEnv.ping},
    uptime  : IF path = P_health THEN UptimeOutcomes ELSE {QuietEnv.uptime},
    loadavg : IF path = P_status THEN LoadOutcomes ELSE {QuietEnv.loadavg},
    static  : IF startswith_api(path) THEN {QuietEnv.static} ELSE StaticOutcomes,
    fault   : {"none"} ]

\* An exception raised inside a handler body that has no try of its own.
FaultEnvFor(path) ==
  [ pgrep : {QuietEnv.pgrep}, ping : {QuietEnv.ping},
    uptime : {QuietEnv.uptime}, loadavg : {QuietEnv.loadavg},
    static : {QuietEnv.static}, fault : {"MemoryError"} ]

Unguarded == {P_status, P_logs}

Complete(req, env, r) ==
  /\ pending' = Tail(pending)
  /\ snapshot' = r.snap
  /\ now' = now + 1
  /\ last' = Exchange(req, env, r)
  /\ obs' = Observe(obs, Exchange(req, env, r), snapshot)

Init ==
  /\ pending = <<>>
  /\ snapshot = SeedSnapshot
  /\ now = 0
  /\ last = NoExchange
  /\ obs = NoObs

\* A client connects; the single-threaded server serves in arrival order.
Connect ==
  /\ Len(pending) < MaxPending
  /\ now + Len(pending) < MaxRequests
  /\ \E req \in Requests : pending' = Append(pending, req)
  /\ UNCHANGED <<snapshot, now, last, obs>>

do_GET ==
  /\ pending # <<>>
  /\ Head(pending).method = "GET"
  /\ LET req == Head(pending)
     IN \E env \in EnvFor(urlparse(req.target).path) :
          Complete(req, env, do_GET_response(req.target, snapshot, now, env))

do_POST ==
  /\ pending # <<>>
  /\ Head(pending).method = "POST"
  /\ LET req == Head(pending)
     IN \E env \in EnvFor(urlparse(req.target).path) :
          Complete(req, env, do_POST_response(req.target, snapshot, now, env))

HandlerFault ==
  /\ pending # <<>>
  /\ urlparse(Head(pending).target).path \in Unguarded
  /\ LET req == Head(pending)
     IN \E env \in FaultEnvFor(urlparse(req.target).path) :
          Complete(req, env,
                   IF req.method = "GET"
                   THEN do_GET_response(req.target, snapshot, now, env)
                   ELSE do_POST_response(req.target, snapshot, now, env))

Next == Connect \/ do_GET \/ do_POST

Spec == Init /\ [][Next]_vars

NextFault == Connect \/ do_GET \/ do_POST \/ HandlerFault

SpecFault == Init /\ [][NextFault]_vars

\* ------------------------------------------------------------------ claims
Served == last.method # "none"

Members == last.body.members

Fields == DOMAIN last.body.members

Returned == last.handlerExc = "none"

ProcessPresent(env) ==
  \E i \in 1..Len(env.pgrep.stdout) : ~IsSpace(env.pgrep.stdout[i])

\* C1 (as stated): on every recognized /api/ path, by GET or POST and after
\* any earlier requests, the body is a JSON object with both a status and a
\* timestamp field.
C1_StatusAndTimestamp ==
  (Served /\ PathOf(last) \in Recognized) =>
    /\ last.body.json = "object"
    /\ {"status", "timestamp"} \subseteq Fields

\* C1 (amended): on every recognized /api/ path the body is a JSON object;
\* when the handler returns it carries timestamp, and it carries status on
\* every recognized path except /api/status and /api/logs, whose bodies have
\* no status field; when the handler raises, the router's body is exactly
\* {error, status}, without a timestamp.
C1_Envelope ==
  (Served /\ PathOf(last) \in Recognized) =>
    /\ last.body.json = "object"
    /\ IF Returned
       THEN /\ "timestamp" \in Fields
            /\ ("status" \in Fields) <=> (PathOf(last) \notin Unguarded)
       ELSE Fields = {"error", "status"}

C1_Witness ==
  /\ PathOf(last) = P_logs
  /\ Returned
  /\ "timestamp" \in Fields
  /\ "status" \notin Fields

\* C2 (as stated): a successful toggle returns the negation of the flag that
\* getStatus reported before it, and getStatus reports that negation after.
C2_ToggleFlips ==
  (Served /\ PathOf(last) = P_toggle /\ Members.status = "success") =>
    /\ Members.claude_enabled = ~obs.flag1
    /\ ReportedFlag(snapshot) = ~obs.flag1

\* C3 (as stated): once N toggle calls have been served and none is waiting,
\* the reported flag is the initial value XOR (N is odd).
C3_NoLostToggle ==
  (pending = <<>>) =>
    ReportedFlag(snapshot) =
      (ReportedFlag(SeedSnapshot) # (obs.nToggles % 2 = 1))

\* C4: two toggles in succession, with no request in between, leave the flag
\* that getStatus reports equal to what it was before the first of them.
C4_ToggleTwiceRestores ==
  (Served /\ PathOf(last) = P_toggle /\ obs.prevCommand = P_toggle) =>
    ReportedFlag(snapshot) = obs.flag2

C4_Witness ==
  /\ Served
  /\ PathOf(last) = P_toggle
  /\ obs.prevCommand = P_toggle
  /\ obs.nToggles = 2
  /\ Members.status = "success"

\* C5: a request under /api/ that matches none of the eight endpoints, by GET
\* or POST, gets transport status 200 and one body with status "error" and the
\* non-empty error message "API endpoint not found".
C5_UnknownEndpoint ==
  (Served /\ IsApi(last) /\ PathOf(last) \notin Recognized) =>
    /\ last.code = 200
    /\ last.writes = 1
    /\ last.body.json = "object"
    /\ "error" \in Fields
    /\ Members.status = "error"
    /\ Members.error = "API endpoint not found"
    /\ Members.error # ""

C5_Witness ==
  /\ last.method = "POST"
  /\ PathOf(last) = <<"api", "health", "">>
  /\ Members.status = "error"

\* C6: check_system_health never raises; its status is "error", with the
\* failure's description and a timestamp, when the process-table lookup
\* raised, and otherwise "healthy" exactly when the process is present and
\* "stopped" when it is absent, whatever the connectivity and uptime probes
\* gave (their own failures included).
C6_HealthStatus ==
  (Served /\ PathOf(last) = P_health) =>
    /\ Returned
    /\ ~last.propagated
    /\ IF last.env.pgrep.exc # "none"
       THEN /\ Members.status = "error"
            /\ {"error", "timestamp"} \subseteq Fields
            /\ Members.error = last.env.pgrep.exc
       ELSE Members.status =
              IF ProcessPresent(last.env) THEN "healthy" ELSE "stopped"

C6_Witness ==
  /\ PathOf(last) = P_health
  /\ last.env.pgrep.exc = "none"
  /\ ProcessPresent(last.env)
  /\ last.env.ping.exc # "none"
  /\ last.env.uptime.exc # "none"
  /\ Members.status = "healthy"

\* C7: when a handler raises while the router serves an /api/ request, the
\* router answers with the body {status: "error", error: <message>}, written
\* once after the 200 header block, and nothing propagates past the router.
C7_RouterCatches ==
  (Served /\ ~Returned) =>
    /\ ~last.propagated
    /\ last.code = 200
    /\ last.headers = CorsHeaders
    /\ last.writes = 1
    /\ last.body.json = "object"
    /\ Fields = {"error", "status"}
    /\ Members.status = "error"
    /\ Members.error = last.handlerExc

C7_Witness ==
  /\ Served
  /\ PathOf(last) = P_status
  /\ last.handlerExc = "MemoryError"
  /\ last.writes = 1

\* C8: start, stop and pause are accepted after any earlier commands: each
\* returns status "success" with the message fixed for that command, and the
\* messages of start and stop differ.
C8_TradingAccepted ==
  (Served /\ PathOf(last) \in TradingPaths) =>
    /\ Members.status = "success"
    /\ Members.message =
         CASE PathOf(last) = P_start -> "Trading system started"
           [] PathOf(last) = P_stop  -> "Trading system stopped"
           [] PathOf(last) = P_pause -> "Trading system paused"
    /\ start_trading(snapshot, now, last.env).resp.message
         # stop_trading(snapshot, now, last.env).resp.message

C8_Witness ==
  /\ PathOf(last) = P_pause
  /\ obs.prevCommand = P_stop
  /\ Members.status = "success"

\* C9: before any command has been issued, GET /api/status reports
\* trading_mode "paper" and active_positions 8.
C9_SeedDefaults ==
  (Served /\ ~obs.anyCommand /\ last.method = "GET" /\ PathOf(last) = P_status) =>
    /\ Members.trading_mode = "paper"
    /\ Members.active_positions = 8

C9_Witness ==
  /\ now = 1
  /\ ~obs.anyCommand
  /\ last.method = "GET"
  /\ PathOf(last) = P_status
  /\ Members.trading_mode = "paper"

\* C10: serving anything other than toggle or refresh (health, status, logs,
\* start, stop, pause, an unknown /api/ path), whether it succeeds or answers
\* with an error, leaves every field of the snapshot unchanged.
C10_ReadOnlyOperations ==
  [][ (now' # now /\ PathOf(last') \notin {P_toggle, P_refresh})
        => snapshot' = snapshot ]_vars

C10_Witness ==
  /\ PathOf(last) = P_pause
  /\ obs.prevCommand = P_stop
  /\ obs.anyCommand
  /\ snapshot = SeedSnapshot

====
